---------------------------- MODULE Spec2Model ----------------------------
(***************************************************************************)
(* Model of the env_map crate (src/src/lib.rs): the function load, which   *)
(* resolves a request (name -> optional default) against the process       *)
(* environment, writes defaults back for absent names and aggregates the   *)
(* per-name errors.                                                        *)
(*                                                                         *)
(* Text (&str, String) and OS strings (OsString) are byte sequences; a     *)
(* String is a byte sequence that is valid UTF-8.  The process environment *)
(* is a partial function from names to OS strings; its values hold no NUL  *)
(* byte.  set_var panics on a name that is empty or holds '=' or NUL and   *)
(* on a value that holds NUL; a panic unwinds load, which returns nothing. *)
(* The request's names are drawn from names set_var accepts; its defaults  *)
(* include a text with a NUL byte.                                         *)
(***************************************************************************)
EXTENDS Integers, Sequences, FiniteSets, TLC

\* ------------------------------------------------------------------ bounds
NumNames == 2
NumValues == 2
MaxCalls == 2
MaxExternal == 1

\* "A", "B", "C", "D" as UTF-8
NamePool == << <<65>>, <<66>>, <<67>>, <<68>> >>
\* "x", "a\0b", "1" and "" as UTF-8
TextPool == << <<120>>, <<97, 0, 98>>, <<49>>, << >> >>
\* byte strings that are not UTF-8: a lone 0xFF
RawPool == << <<255>> >>
\* the value another actor of the process writes: "e"
ExternalValue == <<101>>

Names == {NamePool[i] : i \in 1..NumNames}
Texts == {TextPool[i] : i \in 1..NumValues}
RawValues == {RawPool[i] : i \in 1..Len(RawPool)}

\* the byte string holds the byte c
HasByte(b, c) == \E i \in 1..Len(b) : b[i] = c

\* values a variable of the process environment can hold (C strings)
OsValues == {v \in Texts \cup RawValues : ~HasByte(v, 0)}

\* ------------------------------------------------------- Option and Result
None == << >>
Some(v) == <<v>>
IsSome(o) == Len(o) = 1
Unwrap(o) == o[1]
Options == {None} \cup {Some(v) : v \in Texts}

Ok(v) == <<"Ok", v>>
Err(e) == <<"Err", e>>
IsOk(r) == Len(r) = 2 /\ r[1] = "Ok"
IsErr(r) == Len(r) = 2 /\ r[1] = "Err"

\* std::env::VarError
NotPresent == <<"NotPresent">>
NotUnicode(os) == <<"NotUnicode", os>>
IsNotPresent(e) == e[1] = "NotPresent"

\* ------------------------------------------------------------- HashMap
EmptyMap == [n \in {} |-> << >>]
Insert(m, k, v) == [n \in (DOMAIN m) \cup {k} |-> IF n = k THEN v ELSE m[n]]
IsEmpty(m) == DOMAIN m = {}

PartialFns(D, R) == UNION {[S -> R] : S \in SUBSET D}

\* ---------------------------------------------------------- environment
Continuation(c) == c >= 128 /\ c <= 191

\* OsString::into_string: the bytes are a String iff they are valid UTF-8
RECURSIVE IsUtf8(_)
IsUtf8(b) ==
  IF b = << >> THEN TRUE
  ELSE LET c == b[1]
           n == Len(b)
       IN  IF c < 128 THEN IsUtf8(Tail(b))
           ELSE IF c >= 194 /\ c <= 223
             THEN n >= 2 /\ Continuation(b[2]) /\ IsUtf8(SubSeq(b, 3, n))
           ELSE IF c >= 224 /\ c <= 239
             THEN /\ n >= 3
                  /\ Continuation(b[2])
                  /\ (c = 224 => b[2] >= 160)
                  /\ (c = 237 => b[2] <= 159)
                  /\ Continuation(b[3])
                  /\ IsUtf8(SubSeq(b, 4, n))
           ELSE IF c >= 240 /\ c <= 244
             THEN /\ n >= 4
                  /\ Continuation(b[2])
                  /\ (c = 240 => b[2] >= 144)
                  /\ (c = 244 => b[2] <= 143)
                  /\ Continuation(b[3])
                  /\ Continuation(b[4])
                  /\ IsUtf8(SubSeq(b, 5, n))
           ELSE FALSE

\* env::var(&key)
Var(e, k) ==
  IF k \notin DOMAIN e THEN Err(NotPresent)
  ELSE IF IsUtf8(e[k]) THEN Ok(e[k])
  ELSE Err(NotUnicode(e[k]))

\* the outcome of a call that unwound
Panicked == <<"Panic">>
IsPanic(r) == Len(r) = 1 /\ r[1] = "Panic"

\* env::set_var panics on these arguments
SetVarPanics(k, v) ==
  \/ k = << >>
  \/ HasByte(k, 61)
  \/ HasByte(k, 0)
  \/ HasByte(v, 0)

SetVar_Forgotten(e, k, v) == IF SetVarPanics(k, v) THEN Panicked ELSE Ok(e)

\* env::set_var(&key, value): the environment after the call, or a panic
SetVar(e, k, v) == IF SetVarPanics(k, v) THEN Panicked ELSE Ok(Insert(e, k, v))

\* ------------------------------------------------------------------ load
MatchArm_DefaultFirst(r, option) ==
  IF IsSome(option) THEN "Default"
  ELSE IF IsOk(r) THEN "Ok"
  ELSE IF IsNotPresent(r[2]) THEN "NotPresent"
  ELSE "Other"

\* the arm load's nested match takes for a lookup result and a default
MatchArm(r, option) ==
  IF IsOk(r) THEN "Ok"
  ELSE IF IsNotPresent(r[2])
    THEN (IF IsSome(option) THEN "Default" ELSE "NotPresent")
  ELSE "Other"

LoopDone_SkipLast(remaining) == Cardinality(remaining) <= 1

\* the for loop ends when the request's iterator is exhausted
LoopDone(remaining) == remaining = {}

LoadError(errors) == [env_errors |-> errors]

LoadResult_AlwaysOk(map, errors) == Ok(map)

\* the final branch of load
LoadResult(map, errors) ==
  IF IsEmpty(errors) THEN Ok(map) ELSE Err(LoadError(errors))

VARIABLES
  env,         \* the process environment: name -> OS string (partial)
  request,     \* env_vars: name -> Option<&str> (partial)
  todo,        \* names the for loop has not visited yet
  key,         \* the current entry's name
  res,         \* the result of env::var(&key)
  env_map,     \* load's env_map
  env_errors,  \* load's env_errors
  result,      \* the value load returned
  pc,          \* "loop", "match", "done", "panicked"
  calls,       \* number of calls of load started
  callEnv,     \* the environment when the current call started
  log,         \* per visited name: what the current call did with it
  prev,        \* what the previous call accumulated and defaulted
  raced,       \* another actor set key since load looked it up
  extWrites    \* number of writes by other actors so far

vars == <<env, request, todo, key, res, env_map, env_errors, result, pc,
          calls, callEnv, log, prev, raced, extWrites>>

NoKey == << >>
NoResult == << >>

Init ==
  /\ env \in PartialFns(Names, OsValues)
  /\ request \in PartialFns(Names, Options)
  /\ todo = DOMAIN request
  /\ key = NoKey
  /\ res = NoResult
  /\ env_map = EmptyMap
  /\ env_errors = EmptyMap
  /\ result = NoResult
  /\ pc = "loop"
  /\ calls = 1
  /\ callEnv = env
  /\ log = EmptyMap
  /\ prev = [env_map |-> EmptyMap, defaulted |-> {}]
  /\ raced = FALSE
  /\ extWrites = 0

\* for (&name, &option) in env_vars { ... match env::var(&key)
LookUp ==
  /\ pc = "loop"
  /\ ~LoopDone(todo)
  /\ \E name \in todo :
       /\ key' = name
       /\ res' = Var(env, name)
       /\ todo' = todo \ {name}
  /\ pc' = "match"
  /\ raced' = FALSE
  /\ UNCHANGED <<env, request, env_map, env_errors, result, calls, callEnv,
                 log, prev, extWrites>>

\* what load saw and what a read of key yields before and after the arm
Logged(envAfter) ==
  Insert(log, key, [res |-> res, before |-> Var(env, key),
                    after |-> Var(envAfter, key), raced |-> raced])

EndEntry ==
  /\ key' = NoKey
  /\ res' = NoResult
  /\ raced' = FALSE
  /\ pc' = "loop"
  /\ UNCHANGED <<request, todo, result, calls, callEnv, prev, extWrites>>

\* Ok(value) => env_map.insert(key, value)
ArmOk ==
  /\ pc = "match"
  /\ MatchArm(res, request[key]) = "Ok"
  /\ env_map' = Insert(env_map, key, res[2])
  /\ log' = Logged(env)
  /\ UNCHANGED <<env, env_errors>>
  /\ EndEntry

\* NotPresent, Some(value) => set_var(&key, value); env_map.insert(key, value)
ArmDefault ==
  /\ pc = "match"
  /\ MatchArm(res, request[key]) = "Default"
  /\ IsOk(SetVar(env, key, Unwrap(request[key])))
  /\ env' = SetVar(env, key, Unwrap(request[key]))[2]
  /\ env_map' = Insert(env_map, key, Unwrap(request[key]))
  /\ log' = Logged(env')
  /\ UNCHANGED env_errors
  /\ EndEntry

\* NotPresent, Some(value) => set_var(&key, value) panics: load unwinds
\* with the environment as it is and returns nothing
ArmDefaultPanic ==
  /\ pc = "match"
  /\ MatchArm(res, request[key]) = "Default"
  /\ IsPanic(SetVar(env, key, Unwrap(request[key])))
  /\ result' = Panicked
  /\ log' = Logged(env)
  /\ pc' = "panicked"
  /\ UNCHANGED <<env, request, todo, key, res, env_map, env_errors, calls,
                 callEnv, prev, raced, extWrites>>

\* NotPresent, None => env_errors.insert(key, err)
ArmNotPresent ==
  /\ pc = "match"
  /\ MatchArm(res, request[key]) = "NotPresent"
  /\ env_errors' = Insert(env_errors, key, res[2])
  /\ log' = Logged(env)
  /\ UNCHANGED <<env, env_map>>
  /\ EndEntry

\* _ => env_errors.insert(key, err)
ArmOther ==
  /\ pc = "match"
  /\ MatchArm(res, request[key]) = "Other"
  /\ env_errors' = Insert(env_errors, key, res[2])
  /\ log' = Logged(env)
  /\ UNCHANGED <<env, env_map>>
  /\ EndEntry

\* if env_errors.is_empty() { Ok(env_map) } else { Err(LoadError { env_errors }) }
Return ==
  /\ pc = "loop"
  /\ LoopDone(todo)
  /\ result' = LoadResult(env_map, env_errors)
  /\ pc' = "done"
  /\ UNCHANGED <<env, request, todo, key, res, env_map, env_errors, calls,
                 callEnv, log, prev, raced, extWrites>>

\* the caller calls load again with the same request
Recall ==
  /\ pc = "done"
  /\ calls < MaxCalls
  /\ calls' = calls + 1
  /\ prev' = [env_map |-> env_map,
              defaulted |-> {n \in DOMAIN log :
                               /\ IsErr(log[n].res)
                               /\ IsNotPresent(log[n].res[2])
                               /\ IsSome(request[n])}]
  /\ callEnv' = env
  /\ todo' = DOMAIN request
  /\ env_map' = EmptyMap
  /\ env_errors' = EmptyMap
  /\ result' = NoResult
  /\ log' = EmptyMap
  /\ pc' = "loop"
  /\ UNCHANGED <<env, request, key, res, raced, extWrites>>

\* another actor of the process calls set_var while load runs
ExternalSet ==
  /\ pc \in {"loop", "match"}
  /\ extWrites < MaxExternal
  /\ extWrites' = extWrites + 1
  /\ \E n \in Names :
       /\ IsOk(SetVar(env, n, ExternalValue))
       /\ env' = SetVar(env, n, ExternalValue)[2]
       /\ raced' = (raced \/ (pc = "match" /\ n = key))
  /\ UNCHANGED <<request, todo, key, res, env_map, env_errors, result, pc,
                 calls, callEnv, log, prev>>

Next ==
  \/ LookUp
  \/ ArmOk
  \/ ArmDefault
  \/ ArmDefaultPanic
  \/ ArmNotPresent
  \/ ArmOther
  \/ Return
  \/ Recall

\* calls of load serialized with every other mutator of the environment
Spec == Init /\ [][Next]_vars

NextRace ==
  \/ LookUp
  \/ ArmOk
  \/ ArmDefault
  \/ ArmDefaultPanic
  \/ ArmNotPresent
  \/ ArmOther
  \/ Return
  \/ ExternalSet

\* one call of load with a concurrent mutator of the environment
SpecRace == Init /\ [][NextRace]_vars

\* ------------------------------------------------- load on a given order
Range(seq) == {seq[i] : i \in 1..Len(seq)}

RECURSIVE Perms(_)
Perms(S) ==
  IF S = {} THEN {<< >>}
  ELSE UNION {{<<x>> \o p : p \in Perms(S \ {x})} : x \in S}

\* load run to its end from environment e, iterating the request in `order`:
\* the pair <<returned value or Panicked, final environment>>
RECURSIVE LoadFold(_, _, _, _, _)
LoadFold(req, e, map, errors, order) ==
  IF LoopDone(Range(order)) THEN <<LoadResult(map, errors), e>>
  ELSE LET name == Head(order)
           r == Var(e, name)
           arm == MatchArm(r, req[name])
       IN  CASE arm = "Ok" ->
                  LoadFold(req, e, Insert(map, name, r[2]), errors, Tail(order))
             [] arm = "Default" ->
                  LET w == SetVar(e, name, Unwrap(req[name]))
                  IN  IF IsPanic(w) THEN <<Panicked, e>>
                      ELSE LoadFold(req, w[2],
                                    Insert(map, name, Unwrap(req[name])),
                                    errors, Tail(order))
             [] OTHER ->
                  LoadFold(req, e, map, Insert(errors, name, r[2]), Tail(order))

\* ---------------------------------------------------------------- claims
Done == pc = "done"
Ended == pc \in {"done", "panicked"}

\* the state of a request name in the environment the call started from
Absent(n) == n \notin DOMAIN callEnv
Decodable(n) == n \in DOMAIN callEnv /\ IsUtf8(callEnv[n])
Undecodable(n) == n \in DOMAIN callEnv /\ ~IsUtf8(callEnv[n])
Fails(n) == Undecodable(n) \/ (Absent(n) /\ request[n] = None)

\* C1: when load has finished its pass, every name of the request is a key
\* of exactly one of env_map and env_errors, and neither map has a key
\* outside the request (on a failing call env_map is the partial
\* accumulation).
C1_ExactlyOneMap ==
  Done =>
    /\ (DOMAIN env_map) \cap (DOMAIN env_errors) = {}
    /\ (DOMAIN env_map) \cup (DOMAIN env_errors) = DOMAIN request

C1_Witness ==
  /\ Done
  /\ IsErr(result)
  /\ DOMAIN env_map # {}
  /\ DOMAIN env_errors # {}

\* C2: load returns failure iff env_errors is non-empty after all entries
\* were processed (iff some name is absent without default or undecodable);
\* the failure carries every such name with its cause, and an entry that
\* failed never ends the loop: load goes on to look up the next entry.
C2_CompleteErrorMap ==
  /\ (pc = "loop" /\ todo # {}) => ENABLED LookUp
  /\ Done =>
       /\ DOMAIN log = DOMAIN request
       /\ IsErr(result) <=> ~IsEmpty(env_errors)
       /\ IsErr(result) <=> (\E n \in DOMAIN request : Fails(n))
       /\ IsErr(result) =>
            /\ DOMAIN result[2].env_errors = {n \in DOMAIN request : Fails(n)}
            /\ \A n \in DOMAIN result[2].env_errors :
                 result[2].env_errors[n] =
                   (IF Absent(n) THEN NotPresent ELSE NotUnicode(callEnv[n]))

C2_Witness ==
  /\ Done
  /\ IsErr(result)
  /\ Cardinality(DOMAIN result[2].env_errors) >= 2
  /\ \E n \in DOMAIN request : Absent(n) /\ request[n] = None
  /\ \E n \in DOMAIN request : Undecodable(n)

\* C3: when every name of the request is present and decodable, load does
\* not panic and returns success with exactly the request's names, each
\* mapped to the environment's value, whatever the defaults.
C3_AllPresent ==
  (\A n \in DOMAIN request : Decodable(n)) =>
    /\ pc # "panicked"
    /\ Done =>
         /\ IsOk(result)
         /\ DOMAIN result[2] = DOMAIN request
         /\ \A n \in DOMAIN request : result[2][n] = callEnv[n]

C3_Witness ==
  /\ Done
  /\ \A n \in DOMAIN request : Decodable(n)
  /\ IsOk(result)
  /\ \E n \in DOMAIN request :
       /\ IsSome(request[n])
       /\ Unwrap(request[n]) # callEnv[n]
       /\ HasByte(Unwrap(request[n]), 0)

ScenarioRequest ==
  [n \in {<<65>>, <<66>>} |-> IF n = <<65>> THEN None ELSE Some(<<120>>)]

\* C4: for every request, a name absent from the environment with default
\* d is recorded as name -> d and d is written into the environment, so a
\* read after load yields d, whether the call succeeds or fails; the
\* request {A: none, B: "x"} with neither set fails with {A: NotPresent}
\* and leaves B = "x".
C4_DefaultWrittenBack ==
  /\ \A n \in DOMAIN log :
       (log[n].res = Err(NotPresent) /\ IsSome(request[n])) =>
         /\ log[n].after = Ok(Unwrap(request[n]))
         /\ n \in DOMAIN env_map
         /\ env_map[n] = Unwrap(request[n])
  /\ Done =>
       /\ \A n \in DOMAIN request :
            (Absent(n) /\ IsSome(request[n])) =>
              /\ Var(env, n) = Ok(Unwrap(request[n]))
              /\ IsOk(result) => result[2][n] = Unwrap(request[n])
       /\ (request = ScenarioRequest /\ callEnv = EmptyMap) =>
            /\ result = Err(LoadError([n \in {<<65>>} |-> NotPresent]))
            /\ env = [n \in {<<66>>} |-> <<120>>]

\* C5: for every request with a name present but undecodable, load returns
\* failure with NotUnicode for that name, with or without a default; the
\* default is neither recorded nor written.
C5_UndecodableNotRescued ==
  Ended =>
    \A n \in DOMAIN request :
      Undecodable(n) =>
        /\ IsErr(result)
        /\ n \in DOMAIN result[2].env_errors
        /\ result[2].env_errors[n] = NotUnicode(callEnv[n])
        /\ n \notin DOMAIN env_map
        /\ n \in DOMAIN env
        /\ env[n] = callEnv[n]

\* C6: for every request with a name absent without default, load returns
\* failure with NotPresent for that name, and the name stays absent from
\* the environment.
C6_MissingRequired ==
  Ended =>
    \A n \in DOMAIN request :
      (Absent(n) /\ request[n] = None) =>
        /\ IsErr(result)
        /\ n \in DOMAIN result[2].env_errors
        /\ result[2].env_errors[n] = NotPresent
        /\ n \notin DOMAIN env

\* C7: a second call with the same request right after the first returned
\* accumulates the same env_map; every name the first call defaulted is
\* found present with the default's value, and the second call leaves the
\* environment as it found it.
C7_Idempotent ==
  (Done /\ calls >= 2) =>
    /\ env_map = prev.env_map
    /\ \A n \in prev.defaulted :
         /\ n \in DOMAIN log
         /\ log[n].res = Ok(Unwrap(request[n]))
    /\ \A n \in DOMAIN log : log[n].before = log[n].after
    /\ env = callEnv

C7_Witness ==
  /\ Done
  /\ calls = 2
  /\ prev.defaulted # {}
  /\ DOMAIN env_errors # {}

\* C8: with no concurrent mutator load writes only names of the request
\* that were absent at lookup and have a default; every other variable
\* keeps its state: nothing is removed, nothing present is overwritten.
C8_Frame ==
  /\ \A n \in DOMAIN callEnv : n \in DOMAIN env /\ env[n] = callEnv[n]
  /\ \A n \in (DOMAIN env) \ (DOMAIN callEnv) :
       /\ n \in DOMAIN request
       /\ IsSome(request[n])
       /\ env[n] = Unwrap(request[n])
  /\ \A n \in DOMAIN log :
       log[n].before # log[n].after =>
         /\ log[n].res = Err(NotPresent)
         /\ log[n].before = Err(NotPresent)
         /\ IsSome(request[n])

C8_Witness ==
  /\ Ended
  /\ DOMAIN env # DOMAIN callEnv
  /\ \E n \in DOMAIN request :
       Decodable(n) /\ IsSome(request[n]) /\ Unwrap(request[n]) # callEnv[n]

\* C9: the lookup and the write of a default are two steps: when load
\* found the name absent and the request has a default d, load writes d
\* and records name -> d even if the variable was set meanwhile; a
\* variable present at the time of the write is overwritten only when
\* another actor set it between load's lookup and load's write.
C9_RaceOverwrites ==
  \A n \in DOMAIN log :
    /\ (log[n].res = Err(NotPresent) /\ IsSome(request[n]) /\ log[n].raced) =>
         /\ log[n].after = Ok(Unwrap(request[n]))
         /\ n \in DOMAIN env_map
         /\ env_map[n] = Unwrap(request[n])
    /\ (IsOk(log[n].before) /\ log[n].before # log[n].after) => log[n].raced

\* C10: whatever order load iterates the request in, the outcome and the
\* final environment are the same: the ones of every order.
C10_OrderInsensitive ==
  Ended =>
    \A order \in Perms(DOMAIN request) :
      LoadFold(request, callEnv, EmptyMap, EmptyMap, order) = <<result, env>>

=============================================================================
